---- MODULE Spec2Model ----
(***************************************************************************)
(* A model of the three esptool wrappers esp01_flash.py, esp8266_flash.py  *)
(* and esp32_flash.py: one run of a command-line front end (main), the     *)
(* FlashOperations method it dispatches to, and the retrying command       *)
(* runner (run_command) underneath.  The external tool is the environment: *)
(* every execution of a command ends with a nondeterministic exit status,  *)
(* captured error text and, for read-flash, an effect on the output file.  *)
(***************************************************************************)
EXTENDS Integers, Sequences, FiniteSets, TLC

-----------------------------------------------------------------------------
(* Bounds of the model.                                                    *)

\* Longest explicitly enumerated file content (bytes).
MaxLen == 2

-----------------------------------------------------------------------------
(* Optional values: Python None is the empty tuple, a value x is <<x>>.    *)

None == << >>
Some(x) == << x >>
IsNone(o) == o = << >>
\* Python's truth value of an argument that is None or a str: None and '' are false.
Truthy(o) == o # << >> /\ o[1] # ""
Get(o) == o[1]

-----------------------------------------------------------------------------
(* Text: a str is a sequence of one-character strings.                     *)

UpperCase == << "A","B","C","D","E","F","G","H","I","J","K","L","M",
                "N","O","P","Q","R","S","T","U","V","W","X","Y","Z" >>
LowerCase == << "a","b","c","d","e","f","g","h","i","j","k","l","m",
                "n","o","p","q","r","s","t","u","v","w","x","y","z" >>

\* str.lower() on one character.
lower_char(c) ==
    IF \E i \in 1..Len(UpperCase) : UpperCase[i] = c
    THEN LowerCase[CHOOSE i \in 1..Len(UpperCase) : UpperCase[i] = c]
    ELSE c

\* str.lower()
lower(s) == [i \in 1..Len(s) |-> lower_char(s[i])]

\* needle in hay  (substring test of Python's `in` on str)
str_in(needle, hay) ==
    \E i \in 0..(Len(hay) - Len(needle)) :
        SubSeq(hay, i + 1, i + Len(needle)) = needle

TIMEOUT == << "t","i","m","e","o","u","t" >>
CONNECTION == << "c","o","n","n","e","c","t","i","o","n" >>

\* Hexadecimal digits, for the format specification 08x.
HexDigits == << "0","1","2","3","4","5","6","7","8","9","a","b","c","d","e","f" >>

RECURSIVE hex(_)
\* format(n, "x") for n >= 0
hex(n) == IF n < 16 THEN << HexDigits[n + 1] >>
          ELSE Append(hex(n \div 16), HexDigits[(n % 16) + 1])

RECURSIVE zero_pad(_, _)
zero_pad(s, width) == IF Len(s) >= width THEN s ELSE zero_pad(<< "0" >> \o s, width)

\* f"{n:08x}"
hex08(n) == zero_pad(hex(n), 8)

-----------------------------------------------------------------------------
(* Files.  A file's content is `head` followed by `fill` bytes of value    *)
(* 255, so that images as large as the flash need not be enumerated.       *)

Bytes == {0, 255}

\* os.path.getsize
getsize(f) == Len(f.head) + f.fill
\* The padding byte is 255, the value of erased flash.
byte_at(f, i) == IF i <= Len(f.head) THEN f.head[i] ELSE 255

\* bytes.__eq__ on the results of two read() calls: same length, same bytes.
bytes_eq(f, g) ==
    /\ getsize(f) = getsize(g)
    /\ \A i \in 1..getsize(f) : byte_at(f, i) = byte_at(g, i)

TEMP_FILE == "temp_verification.bin"

exists(disk, name) == name \in DOMAIN disk
remove(disk, name) == [n \in (DOMAIN disk) \ {name} |-> disk[n]]
write_file(disk, name, f) == [n \in (DOMAIN disk) \cup {name} |-> IF n = name THEN f ELSE disk[n]]

SmallFiles == { [head |-> h, fill |-> 0] : h \in UNION { [1..n -> Bytes] : n \in 0..MaxLen } }
BlankFile(n) == [head |-> << >>, fill |-> n]

-----------------------------------------------------------------------------
(* Constants of the program.                                               *)

\* self.max_retries
max_retries == 3
\* ESP01: the literal 0x100000 of write_flash's size check.
ESP01_FLASH_LIMIT == 1048576
\* ESP01: default of read_flash's and verify_flash's size (0x100000).
ESP01_READ_SIZE == 1048576
\* ESP32: default of read_flash's size (0x400000).
ESP32_READ_SIZE == 4194304

FlashSizeNames == {"1MB", "2MB", "4MB", "8MB", "16MB"}

\* ESP8266: self.flash_sizes.get(name, 0x400000)
flash_sizes_get(name) ==
    CASE name = "1MB" -> 1048576
      [] name = "2MB" -> 2097152
      [] name = "4MB" -> 4194304
      [] name = "8MB" -> 8388608
      [] name = "16MB" -> 16777216
      [] OTHER -> 4194304

Variants == {"esp01", "esp8266", "esp32"}
HasRetry(v) == v \in {"esp01", "esp8266"}

\* __init__: the flash_size attribute of the flasher object.
self_flash_size(v, a) == CASE v = "esp01" -> "1MB" [] v = "esp8266" -> a.flash_size [] OTHER -> "4MB"
\* __init__: the flash_mode attribute.
self_flash_mode(v) == IF v = "esp8266" THEN "dout" ELSE "dio"

-----------------------------------------------------------------------------
(* Command lines.  A command is kept as its parts, in the order of the     *)
(* f-string that builds it: program, --port/--baud, flags, subcommand,     *)
(* flash options and operands (address, size, file).                        *)

PORT == "COM3"

\* The spelling of esptool's subcommands: hyphens in ESP01/ESP8266, underscores in ESP32.
sub(v, name) ==
    IF v = "esp32"
    THEN CASE name = "chip-id" -> "chip_id" [] name = "read-flash" -> "read_flash"
           [] name = "write-flash" -> "write_flash" [] name = "erase-flash" -> "erase_flash"
           [] OTHER -> name
    ELSE name

device_cmd(v, name, flags, opts, operands) ==
    [prog |-> "esptool.py", port |-> Some(PORT), sub |-> sub(v, name),
     flags |-> flags, opts |-> opts, operands |-> operands]

\* check_esptool: "python -m esptool version"
version_cmd ==
    [prog |-> "python -m esptool", port |-> None, sub |-> "version",
     flags |-> {}, opts |-> None, operands |-> << >>]

chip_id_cmd(v) == device_cmd(v, "chip-id", {}, None, << >>)
flash_id_cmd(v) == device_cmd(v, "flash-id", {}, None, << >>)
read_mac_cmd(v) == device_cmd(v, "read-mac", {}, None, << >>)
erase_flash_cmd(v) == device_cmd(v, "erase-flash", {}, None, << >>)

\* read_flash: ... {progress_flag} read-flash {start:08x} {size:08x} {output_file}
read_flash_cmd(v, output_file, start, size, progress) ==
    device_cmd(v, "read-flash",
               IF progress /\ v # "esp32" THEN {"--progress"} ELSE {},
               None,
               << [addr |-> hex08(start), size |-> Some(hex08(size)), file |-> output_file] >>)

flash_opts(v, a) ==
    Some([mode |-> self_flash_mode(v), freq |-> "40m", size |-> self_flash_size(v, a)])

\* write_flash: ... write-flash --flash-mode .. {verify_flag} {erase_flag} {address:08x} {firmware_file}
write_flash_cmd(v, a, firmware_file, address, verify, progress, erase_all) ==
    device_cmd(v, "write-flash",
               IF v = "esp32" THEN {}
               ELSE (IF verify THEN {"--verify"} ELSE {})
                    \cup (IF progress THEN {"--progress"} ELSE {})
                    \cup (IF erase_all THEN {"--erase-all"} ELSE {}),
               flash_opts(v, a),
               << [addr |-> hex08(address), size |-> None, file |-> firmware_file] >>)

\* A Python dict as the sequence of its items in insertion order.
dict_set(d, k, val) ==
    IF \E i \in 1..Len(d) : d[i].key = k
    THEN [i \in 1..Len(d) |-> IF d[i].key = k THEN [key |-> k, val |-> val] ELSE d[i]]
    ELSE Append(d, [key |-> k, val |-> val])

\* ESP8266 main, write_multiple: files_dict built from --bootloader, --app, --spiffs.
files_dict_of(a) ==
    LET d0 == << >>
        d1 == IF Truthy(a.bootloader) THEN dict_set(d0, a.bootloader_addr, Get(a.bootloader)) ELSE d0
        d2 == IF Truthy(a.app) THEN dict_set(d1, a.app_addr, Get(a.app)) ELSE d1
        d3 == IF Truthy(a.spiffs) THEN dict_set(d2, a.spiffs_addr, Get(a.spiffs)) ELSE d2
    IN d3

\* ESP8266 write_multiple_files: cmd += f" {address:08x} {file_path}" for every item.
write_multiple_cmd(v, a, files_dict, progress) ==
    device_cmd(v, "write-flash",
               IF progress THEN {"--progress"} ELSE {},
               flash_opts(v, a),
               [i \in 1..Len(files_dict) |->
                   [addr |-> hex08(files_dict[i].key), size |-> None, file |-> files_dict[i].val]])

\* ESP32 write_complete_firmware: ... 0x1000 {bootloader} 0x8000 {partition_table} 0x10000 {app}
write_complete_cmd(v, a, bootloader, partition_table, app) ==
    device_cmd(v, "write-flash", {}, flash_opts(v, a),
               << [addr |-> << "0","x","1","0","0","0" >>, size |-> None, file |-> bootloader],
                  [addr |-> << "0","x","8","0","0","0" >>, size |-> None, file |-> partition_table],
                  [addr |-> << "0","x","1","0","0","0","0" >>, size |-> None, file |-> app] >>)

\* ESP32 read_partition: the table of partitions, name -> (start, size).
PartitionNames == {"bootloader", "partition_table", "app", "nvs", "otadata", "spiffs"}
\* A table whose nvs entry starts at the partition table's address.
partitions_nvs_misplaced(name) ==
    CASE name = "bootloader" -> << 4096, 24576 >>
      [] name = "partition_table" -> << 32768, 4096 >>
      [] name = "app" -> << 65536, 1048576 >>
      [] name = "nvs" -> << 32768, 24576 >>
      [] name = "otadata" -> << 53248, 8192 >>
      [] name = "spiffs" -> << 1572864, 2097152 >>

partitions(name) ==
    CASE name = "bootloader" -> << 4096, 24576 >>
      [] name = "partition_table" -> << 32768, 4096 >>
      [] name = "app" -> << 65536, 1048576 >>
      [] name = "nvs" -> << 36864, 24576 >>
      [] name = "otadata" -> << 53248, 8192 >>
      [] name = "spiffs" -> << 1572864, 2097152 >>

-----------------------------------------------------------------------------
(* The command line given to main, after argparse.                         *)

ActionsOf(v) ==
    CASE v = "esp01" -> {"info", "read", "write", "erase", "backup", "at_firmware",
                         "verify", "mac", "flash_id"}
      [] v = "esp8266" -> {"info", "read", "write", "erase", "backup", "verify", "mac",
                           "flash_id", "detect_size", "write_multiple"}
      [] v = "esp32" -> {"info", "read", "write", "write_complete", "erase", "backup",
                         "read_partition"}

\* The argparse defaults; size is int(args.size, 16), None when ESP8266's --size is absent.
DefaultArgs(v, action) ==
    [action |-> action, file |-> None, address |-> 0,
     size |-> CASE v = "esp01" -> Some(ESP01_READ_SIZE)
                [] v = "esp8266" -> None
                [] v = "esp32" -> Some(ESP32_READ_SIZE),
     verify |-> FALSE, no_verify |-> FALSE, no_progress |-> FALSE, erase_all |-> FALSE,
     flash_size |-> "4MB",
     bootloader |-> None, app |-> None, spiffs |-> None,
     bootloader_addr |-> 0, app_addr |-> 65536, spiffs_addr |-> 2097152,
     partition_table |-> None, partition |-> None]

EmptyDisk == [n \in {} |-> BlankFile(0)]
DiskOf(names, f) == [n \in names |-> f]

Addresses == {0, 4096}
FlashSizesOf(v) == IF v = "esp8266" THEN FlashSizeNames ELSE {"4MB"}
\* Sizes of the firmware images offered to write_flash: around every capacity.
ImageSizes == {1} \cup UNION { {c, c + 1} : c \in {1048576, 4194304, 16777216} }
\* A file argument: absent, the empty string, or a name.
OptFile(name) == {None, Some(""), Some(name)}

\* The pairs << args, disk >> a run of variant v with action a is started on.
Inputs(v, a) ==
    LET d == DefaultArgs(v, a) IN
    CASE a \in {"read"} ->
           { << [d EXCEPT !.file = f, !.address = ad, !.size = sz, !.no_progress = np], EmptyDisk >> :
               f \in OptFile("out.bin"), ad \in Addresses, sz \in {d.size, Some(4096)},
               np \in IF v = "esp32" THEN {FALSE} ELSE BOOLEAN }
      [] a \in {"backup"} ->
           { << [d EXCEPT !.file = f], EmptyDisk >> : f \in OptFile("out.bin") }
      [] a \in {"write", "at_firmware"} ->
           { << [d EXCEPT !.file = f], EmptyDisk >> : f \in {None, Some("")} }
           \cup
           { << [d EXCEPT !.file = Some("fw.bin"), !.address = ad, !.verify = vf,
                          !.no_verify = nv, !.erase_all = ea, !.flash_size = fs], dk >> :
               ad \in Addresses,
               vf \in IF v = "esp32" THEN {FALSE} ELSE BOOLEAN,
               nv \in IF v = "esp32" THEN {FALSE} ELSE BOOLEAN,
               ea \in IF v = "esp32" \/ a = "at_firmware" THEN {FALSE} ELSE BOOLEAN,
               fs \in FlashSizesOf(v),
               dk \in {EmptyDisk} \cup { DiskOf({"fw.bin"}, BlankFile(n)) : n \in ImageSizes } }
      [] a \in {"verify"} ->
           { << [d EXCEPT !.file = f], dk >> :
               f \in {None, Some(""), Some("fw.bin"), Some(TEMP_FILE)},
               dk \in { fw @@ tmp :
                           fw \in {EmptyDisk} \cup { DiskOf({"fw.bin"}, c) : c \in SmallFiles },
                           tmp \in { DiskOf(ns, [head |-> << 0 >>, fill |-> 0]) :
                                        ns \in SUBSET {TEMP_FILE} } } }
      [] a \in {"write_multiple"} ->
           { << [d EXCEPT !.bootloader = b, !.app = ap, !.spiffs = sp,
                          !.bootloader_addr = ba, !.spiffs_addr = sa], dk >> :
               b \in OptFile("boot.bin"), ap \in OptFile("app.bin"), sp \in OptFile("fs.bin"),
               ba \in {0, 65536}, sa \in {65536, 2097152},
               dk \in { DiskOf(ns, BlankFile(1)) : ns \in {{}, {"boot.bin", "app.bin"},
                                                          {"boot.bin", "app.bin", "fs.bin"}} } }
      [] a \in {"write_complete"} ->
           { << [d EXCEPT !.bootloader = b, !.partition_table = pt, !.app = ap], dk >> :
               b \in OptFile("boot.bin"), pt \in OptFile("pt.bin"), ap \in OptFile("app.bin"),
               dk \in { DiskOf(ns, BlankFile(1)) : ns \in {{"boot.bin", "app.bin"},
                                                          {"boot.bin", "pt.bin", "app.bin"}} } }
      [] a \in {"read_partition"} ->
           { << [d EXCEPT !.partition = pn, !.file = f], EmptyDisk >> :
               pn \in {None} \cup { Some(n) : n \in PartitionNames \cup {"factory", ""} },
               f \in OptFile("out.bin") }
      [] OTHER -> { << d, EmptyDisk >> }

-----------------------------------------------------------------------------
(* What one execution of an external command can do.                       *)

\* Exit statuses of the external tool.
ReturnCodes == {0, 2}

\* Captured standard error texts.
ERR_TIMEOUT_MIXED == << "T","i","m","e","o","u","t" >>
ERR_CONNECTION_UPPER == << "C","O","N","N","E","C","T","I","O","N"," ","l","o","s","t" >>
ERR_TIME_OUT == << "t","i","m","e"," ","o","u","t" >>
ERR_DENIED == << "d","e","n","i","e","d" >>
StderrTexts == { << >>, ERR_TIMEOUT_MIXED, ERR_CONNECTION_UPPER, ERR_TIME_OUT, ERR_DENIED }

\* The file a read-flash command writes to, if the command is one.
output_of(c) ==
    IF c.sub \in {"read-flash", "read_flash"} THEN Some(c.operands[1].file) ELSE None

\* What an execution of c can do to the disk: nothing, or (re)write its output file.
Effects(dk, c) ==
    { [disk |-> dk, wrote |-> FALSE] }
    \cup (IF ~IsNone(output_of(c))
          THEN { [disk |-> write_file(dk, Get(output_of(c)), f), wrote |-> TRUE] : f \in SmallFiles }
          ELSE {})

NoResult == [kind |-> "none", returncode |-> 0, stderr |-> << >>, wrote |-> FALSE]

-----------------------------------------------------------------------------
VARIABLES
    variant,   \* which script runs
    args,      \* its parsed command line
    disk,      \* the files of the working directory: name -> content
    pc,        \* where the run is: main, dispatch, exec, sleep, ret, exited, uncaught
    cont,      \* the caller waiting for run_command's value
    cmd,       \* run_command's cmd
    check,     \* run_command's check
    retries,   \* run_command's retries
    calls,     \* number of top-level run_command calls so far
    last,      \* what the latest subprocess.run did
    log,       \* every execution of an external command, in order
    ret,       \* the value run_command returned
    results,   \* the values the flasher's methods returned, in order
    exit,      \* the status given to sys.exit, or 0 at the end of main; None before
    banner     \* the final success banner was printed

vars == << variant, args, disk, pc, cont, cmd, check, retries, calls, last, log, ret,
           results, exit, banner >>

Init ==
    /\ variant \in Variants
    /\ \E a \in ActionsOf(variant) : \E inp \in Inputs(variant, a) :
          /\ args = inp[1]
          /\ disk = inp[2]
    /\ pc = "main"
    /\ cont = "none"
    /\ cmd = version_cmd
    /\ check = FALSE
    /\ retries = 0
    /\ calls = 0
    /\ last = NoResult
    /\ log = << >>
    /\ ret = FALSE
    /\ results = << >>
    /\ exit = None
    /\ banner = FALSE

-----------------------------------------------------------------------------
(* Steps shared by the operations.                                         *)

\* A caller invokes self.run_command(c, chk) with retries = 0.
Call(c, chk, k) ==
    /\ pc' = "exec"
    /\ cmd' = c
    /\ check' = chk
    /\ retries' = 0
    /\ calls' = calls + 1
    /\ cont' = k

\* sys.exit(code), or the end of main with code 0.
Exit(code, bn) ==
    /\ pc' = "exited"
    /\ exit' = Some(code)
    /\ banner' = bn

\* The end of main: ESP01/ESP8266 print the banner, ESP32 prints nothing.
Finish == Exit(0, HasRetry(variant))

\* A method of the flasher returns value b.
Returned(op, b) == results' = Append(results, [op |-> op, ok |-> b])

\* A KeyboardInterrupt raised while main waits in operation k: ESP01/ESP8266 catch it
\* inside the try block only, which starts after check_esptool; ESP32 never catches it,
\* and nothing catches it when a method is called directly, outside main.
Interrupted(k) ==
    IF HasRetry(variant) /\ k \notin {"check_esptool", "write_arduino_sketch"}
    THEN Exit(1, FALSE)
    ELSE /\ pc' = "uncaught"
         /\ UNCHANGED << exit, banner >>

-----------------------------------------------------------------------------
(* run_command                                                             *)

\* "timeout" in result.stderr.lower() or "connection" in result.stderr.lower()
is_transient(stderr) == str_in(TIMEOUT, lower(stderr)) \/ str_in(CONNECTION, lower(stderr))

\* A retry on every failure, whatever the error text.
should_retry_any(n, stderr) == n < max_retries

\* A retry budget that is one too large.
should_retry_once_more(n, stderr) == n <= max_retries /\ is_transient(stderr)

\* The condition of the retry, in the branch of a non-zero return code.
should_retry(n, stderr) == n < max_retries /\ is_transient(stderr)

\* subprocess.run(..., check=chk) raises CalledProcessError on a non-zero status.
raises_called_process_error(v, chk, returncode) == HasRetry(v) /\ chk /\ returncode # 0

\* One subprocess.run of cmd: its outcome, and its effect e on the disk.
Executed(kind, returncode, stderr, e) ==
    /\ last' = [kind |-> kind, returncode |-> returncode, stderr |-> stderr, wrote |-> e.wrote]
    /\ log' = Append(log, [cmd |-> cmd, call |-> calls])
    /\ disk' = e.disk

\* A run_command whose retry drops the value of the recursive call: True is returned
\* by a first execution only.
run_command_success_first_only ==
    /\ pc = "exec"
    /\ \E e \in Effects(disk, cmd) : Executed("completed", 0, << >>, e)
    /\ ret' = (retries = 0)
    /\ pc' = "ret"
    /\ UNCHANGED << variant, args, cont, cmd, check, retries, calls, results, exit, banner >>

\* The command runs and exits with status 0: return True.
run_command_success ==
    /\ pc = "exec"
    /\ \E e \in Effects(disk, cmd) : Executed("completed", 0, << >>, e)
    /\ ret' = TRUE
    /\ pc' = "ret"
    /\ UNCHANGED << variant, args, cont, cmd, check, retries, calls, results, exit, banner >>

\* The command runs and exits with a non-zero status: CalledProcessError under
\* check=True, else the retry on a transient signature, else return False.
run_command_failure ==
    /\ pc = "exec"
    /\ \E returncode \in ReturnCodes \ {0}, stderr \in StderrTexts, e \in Effects(disk, cmd) :
         /\ Executed("completed", returncode, stderr, e)
         /\ IF raises_called_process_error(variant, check, returncode)
            THEN /\ ret' = FALSE
                 /\ pc' = "ret"
            ELSE IF HasRetry(variant) /\ should_retry(retries, stderr)
            THEN /\ pc' = "sleep"
                 /\ UNCHANGED ret
            ELSE /\ ret' = FALSE
                 /\ pc' = "ret"
    /\ UNCHANGED << variant, args, cont, cmd, check, retries, calls, results, exit, banner >>

\* subprocess.run raises OSError (the shell cannot be started): return False.
run_command_oserror ==
    /\ pc = "exec"
    /\ Executed("oserror", 0, << >>, [disk |-> disk, wrote |-> FALSE])
    /\ ret' = FALSE
    /\ pc' = "ret"
    /\ UNCHANGED << variant, args, cont, cmd, check, retries, calls, results, exit, banner >>

\* Ctrl-C while the command runs: KeyboardInterrupt passes through run_command.
run_command_interrupt ==
    /\ pc = "exec"
    /\ \E e \in Effects(disk, cmd) : Executed("interrupt", 0, << >>, e)
    /\ Interrupted(cont)
    /\ UNCHANGED << variant, args, cont, cmd, check, retries, calls, ret, results >>

\* time.sleep(2); return self.run_command(cmd, check, retries + 1)
run_command_retry ==
    /\ pc = "sleep"
    /\ retries' = retries + 1
    /\ pc' = "exec"
    /\ UNCHANGED << variant, args, disk, cont, cmd, check, calls, last, log, ret, results,
                    exit, banner >>

\* Ctrl-C during time.sleep(2).
run_command_sleep_interrupt ==
    /\ pc = "sleep"
    /\ Interrupted(cont)
    /\ UNCHANGED << variant, args, disk, cont, cmd, check, retries, calls, last, log, ret,
                    results >>

-----------------------------------------------------------------------------
(* The methods of the flasher, up to the command they hand to run_command. *)

\* read_flash's size: ESP8266 replaces None by the capacity of the configured flash size.
read_size(v, a, size) ==
    IF IsNone(size) THEN flash_sizes_get(self_flash_size(v, a)) ELSE Get(size)

\* The default read_flash uses when backup_firmware calls it without a size.
default_read_size(v) ==
    CASE v = "esp01" -> Some(ESP01_READ_SIZE) [] v = "esp8266" -> None
      [] v = "esp32" -> Some(ESP32_READ_SIZE)

\* The size check with >= in place of >: an image that fills the flash is refused.
write_flash_size_ok_strict(v, a, file_size) ==
    CASE v = "esp01" -> ~(file_size >= ESP01_FLASH_LIMIT)
      [] v = "esp8266" -> ~(file_size >= flash_sizes_get(self_flash_size(v, a)))
      [] v = "esp32" -> TRUE

\* write_flash's size check: ESP01 against 0x100000, ESP8266 against flash_sizes; ESP32 has none.
write_flash_size_ok(v, a, file_size) ==
    CASE v = "esp01" -> ~(file_size > ESP01_FLASH_LIMIT)
      [] v = "esp8266" -> ~(file_size > flash_sizes_get(self_flash_size(v, a)))
      [] v = "esp32" -> TRUE

\* write_flash returns False before building a command.
write_flash_rejects(v, a, dk, firmware_file) ==
    \/ ~exists(dk, firmware_file)
    \/ ~write_flash_size_ok(v, a, getsize(dk[firmware_file]))

\* Whether the platform refuses to remove a file that a process still holds open:
\* Windows does (PermissionError), POSIX systems do not.
RefusesOpenRemove == BOOLEAN

\* os.remove(name): raises, leaving the disk as it is, when the file is held open and
\* the platform refuses; else the file is gone.
os_remove(dk, name, held_open, refuses) ==
    IF held_open /\ refuses
    THEN [raised |-> TRUE, disk |-> dk]
    ELSE [raised |-> FALSE, disk |-> remove(dk, name)]

\* The except branch of verify_flash, reached with both files closed again:
\* if os.path.exists(temp_file): os.remove(temp_file); return False
verify_flash_except(dk, refuses) ==
    [ok |-> FALSE,
     disk |-> IF exists(dk, TEMP_FILE) THEN os_remove(dk, TEMP_FILE, FALSE, refuses).disk ELSE dk]

\* verify_flash whose except branch forgets the temporary file.
verify_flash_compare_leaky(dk, firmware_file, refuses) ==
    IF ~exists(dk, firmware_file) \/ ~exists(dk, TEMP_FILE)
    THEN [ok |-> FALSE, disk |-> dk]
    ELSE LET removed == os_remove(dk, TEMP_FILE, TRUE, refuses) IN
         IF removed.raised
         THEN [ok |-> FALSE, disk |-> dk]
         ELSE [ok |-> bytes_eq(dk[firmware_file], dk[TEMP_FILE]), disk |-> removed.disk]

\* verify_flash after a successful read-back: open both files, compare, and remove the
\* temporary file inside the with block, where it is still open; an OSError from open()
\* or from os.remove goes to the except branch.
verify_flash_compare(dk, firmware_file, refuses) ==
    IF ~exists(dk, firmware_file) \/ ~exists(dk, TEMP_FILE)
    THEN verify_flash_except(dk, refuses)
    ELSE LET removed == os_remove(dk, TEMP_FILE, TRUE, refuses) IN
         IF removed.raised
         THEN verify_flash_except(dk, refuses)
         ELSE [ok |-> bytes_eq(dk[firmware_file], dk[TEMP_FILE]), disk |-> removed.disk]

\* main: backup_file = args.file or "<chip>_backup.bin"
backup_file_of(v, a) ==
    IF Truthy(a.file) THEN Get(a.file)
    ELSE CASE v = "esp01" -> "esp01_backup.bin" [] v = "esp8266" -> "esp8266_backup.bin"
           [] v = "esp32" -> "esp32_backup.bin"

\* A verify flag that --no-verify does not switch off.
verify_of_verify_only(a) == a.verify

\* main: verify = args.verify and not args.no_verify
verify_of(a) == a.verify /\ ~a.no_verify
\* main: progress = not args.no_progress
progress_of(a) == ~a.no_progress

-----------------------------------------------------------------------------
(* main                                                                    *)

\* run_command's default check=True (ESP01/ESP8266); ESP32 calls subprocess.run without check.
default_check(v) == HasRetry(v)

NoCall == UNCHANGED << cmd, check, retries, calls, cont >>
Idle == UNCHANGED << variant, args, disk, last, log, ret >>

\* main after the method it dispatched to returned b and main tests the value.
Checked(b) == IF b THEN Finish ELSE Exit(1, FALSE)

\* ESP01/ESP8266: flasher.check_esptool() comes first; ESP32 goes straight to the action.
main_start ==
    /\ pc = "main"
    /\ IF HasRetry(variant)
       THEN Call(version_cmd, FALSE, "check_esptool")
       ELSE /\ pc' = "dispatch"
            /\ NoCall
    /\ UNCHANGED << results, exit, banner >>
    /\ Idle

\* A main that calls check_esptool and goes on to the action whatever it returned.
main_check_esptool_ignored ==
    /\ pc = "ret" /\ cont = "check_esptool"
    /\ Returned("check_esptool", ret)
    /\ pc' = "dispatch"
    /\ UNCHANGED << exit, banner >>
    /\ NoCall
    /\ Idle

\* if not flasher.check_esptool(): sys.exit(1)
main_check_esptool ==
    /\ pc = "ret" /\ cont = "check_esptool"
    /\ Returned("check_esptool", ret)
    /\ IF ret
       THEN /\ pc' = "dispatch"
            /\ UNCHANGED << exit, banner >>
       ELSE Exit(1, FALSE)
    /\ NoCall
    /\ Idle

\* --action info: get_chip_info (then get_flash_id, get_mac_address in ESP01/ESP8266).
main_info ==
    /\ pc = "dispatch" /\ args.action = "info"
    /\ Call(chip_id_cmd(variant), default_check(variant), "get_chip_info")
    /\ UNCHANGED << results, exit, banner >>
    /\ Idle

\* --action mac / flash_id / detect_size: one query, its value unused.
main_query ==
    /\ pc = "dispatch" /\ args.action \in {"mac", "flash_id", "detect_size"}
    /\ CASE args.action = "mac" -> Call(read_mac_cmd(variant), default_check(variant), "get_mac_address")
         [] args.action = "flash_id" -> Call(flash_id_cmd(variant), default_check(variant), "get_flash_id")
         [] args.action = "detect_size" -> Call(flash_id_cmd(variant), default_check(variant), "detect_flash_size")
    /\ UNCHANGED << results, exit, banner >>
    /\ Idle

\* --action read
main_read ==
    /\ pc = "dispatch" /\ args.action = "read"
    /\ IF ~Truthy(args.file)
       THEN /\ Exit(1, FALSE)
            /\ NoCall
       ELSE /\ Call(read_flash_cmd(variant, Get(args.file), args.address,
                                   read_size(variant, args, args.size), progress_of(args)),
                    default_check(variant), "read_flash")
            /\ UNCHANGED << exit, banner >>
    /\ UNCHANGED results
    /\ Idle

\* --action backup
main_backup ==
    /\ pc = "dispatch" /\ args.action = "backup"
    /\ Call(read_flash_cmd(variant, backup_file_of(variant, args), 0,
                           read_size(variant, args, default_read_size(variant)), TRUE),
            default_check(variant), "backup_firmware")
    /\ UNCHANGED << results, exit, banner >>
    /\ Idle

\* --action write, and ESP01's --action at_firmware (write_at_firmware -> write_flash at 0).
main_write ==
    /\ pc = "dispatch" /\ args.action \in {"write", "at_firmware"}
    /\ LET at == args.action = "at_firmware"
           address == IF at THEN 0 ELSE args.address
           progress == IF at THEN TRUE ELSE progress_of(args)
           erase_all == IF at THEN FALSE ELSE args.erase_all
           ops == IF at THEN << "write_flash", "write_at_firmware" >> ELSE << "write_flash" >>
       IN IF ~Truthy(args.file)
          THEN /\ Exit(1, FALSE)
               /\ NoCall
               /\ UNCHANGED results
          ELSE IF write_flash_rejects(variant, args, disk, Get(args.file))
          THEN /\ results' = results \o [i \in 1..Len(ops) |-> [op |-> ops[i], ok |-> FALSE]]
               /\ IF HasRetry(variant) THEN Exit(1, FALSE) ELSE Finish
               /\ NoCall
          ELSE /\ Call(write_flash_cmd(variant, args, Get(args.file), address,
                                       verify_of(args), progress, erase_all),
                       default_check(variant),
                       IF at THEN "write_at_firmware" ELSE "write_flash")
               /\ UNCHANGED << results, exit, banner >>
    /\ Idle

\* --action erase
main_erase ==
    /\ pc = "dispatch" /\ args.action = "erase"
    /\ Call(erase_flash_cmd(variant), default_check(variant), "erase_flash")
    /\ UNCHANGED << results, exit, banner >>
    /\ Idle

\* --action verify that returns from main on a missing --file instead of sys.exit(1).
main_verify_returns ==
    /\ pc = "dispatch" /\ args.action = "verify"
    /\ IF ~Truthy(args.file)
       THEN /\ Finish
            /\ NoCall
       ELSE /\ Call(read_flash_cmd(variant, TEMP_FILE, args.address,
                                   read_size(variant, args, args.size), FALSE),
                    default_check(variant), "verify_flash")
            /\ UNCHANGED << exit, banner >>
    /\ UNCHANGED results
    /\ Idle

\* --action verify (ESP01/ESP8266): verify_flash starts with the read-back.
main_verify ==
    /\ pc = "dispatch" /\ args.action = "verify"
    /\ IF ~Truthy(args.file)
       THEN /\ Exit(1, FALSE)
            /\ NoCall
       ELSE /\ Call(read_flash_cmd(variant, TEMP_FILE, args.address,
                                   read_size(variant, args, args.size), FALSE),
                    default_check(variant), "verify_flash")
            /\ UNCHANGED << exit, banner >>
    /\ UNCHANGED results
    /\ Idle

\* --action write_multiple (ESP8266)
main_write_multiple ==
    /\ pc = "dispatch" /\ args.action = "write_multiple"
    /\ LET files_dict == files_dict_of(args) IN
       IF files_dict = << >>
       THEN /\ Exit(1, FALSE)
            /\ NoCall
            /\ UNCHANGED results
       ELSE IF \E i \in 1..Len(files_dict) : ~exists(disk, files_dict[i].val)
       THEN /\ Returned("write_multiple_files", FALSE)
            /\ Exit(1, FALSE)
            /\ NoCall
       ELSE /\ Call(write_multiple_cmd(variant, args, files_dict, progress_of(args)),
                    default_check(variant), "write_multiple_files")
            /\ UNCHANGED << results, exit, banner >>
    /\ Idle

\* --action write_complete that goes on as soon as one of the three files exists.
main_write_complete_any ==
    /\ pc = "dispatch" /\ args.action = "write_complete"
    /\ IF ~(Truthy(args.bootloader) /\ Truthy(args.partition_table) /\ Truthy(args.app))
       THEN /\ Exit(1, FALSE)
            /\ NoCall
            /\ UNCHANGED results
       ELSE IF ~(\E f \in {Get(args.bootloader), Get(args.partition_table), Get(args.app)} :
                    exists(disk, f))
       THEN /\ Returned("write_complete_firmware", FALSE)
            /\ Finish
            /\ NoCall
       ELSE /\ Call(write_complete_cmd(variant, args, Get(args.bootloader),
                                       Get(args.partition_table), Get(args.app)),
                    default_check(variant), "write_complete_firmware")
            /\ UNCHANGED << results, exit, banner >>
    /\ Idle

\* --action write_complete (ESP32)
main_write_complete ==
    /\ pc = "dispatch" /\ args.action = "write_complete"
    /\ IF ~(Truthy(args.bootloader) /\ Truthy(args.partition_table) /\ Truthy(args.app))
       THEN /\ Exit(1, FALSE)
            /\ NoCall
            /\ UNCHANGED results
       ELSE IF ~(\A f \in {Get(args.bootloader), Get(args.partition_table), Get(args.app)} :
                    exists(disk, f))
       THEN /\ Returned("write_complete_firmware", FALSE)
            /\ Finish
            /\ NoCall
       ELSE /\ Call(write_complete_cmd(variant, args, Get(args.bootloader),
                                       Get(args.partition_table), Get(args.app)),
                    default_check(variant), "write_complete_firmware")
            /\ UNCHANGED << results, exit, banner >>
    /\ Idle

\* --action read_partition (ESP32)
main_read_partition ==
    /\ pc = "dispatch" /\ args.action = "read_partition"
    /\ IF ~Truthy(args.partition) \/ ~Truthy(args.file)
       THEN /\ Exit(1, FALSE)
            /\ NoCall
            /\ UNCHANGED results
       ELSE IF Get(args.partition) \notin PartitionNames
       THEN /\ Returned("read_partition", FALSE)
            /\ Finish
            /\ NoCall
       ELSE /\ Call(read_flash_cmd(variant, Get(args.file), partitions(Get(args.partition))[1],
                                   partitions(Get(args.partition))[2], TRUE),
                    default_check(variant), "read_partition")
            /\ UNCHANGED << results, exit, banner >>
    /\ Idle

\* The methods that return when run_command returns to caller k, innermost first.
ops_of(k) ==
    CASE k = "backup_firmware" -> << "read_flash", "backup_firmware" >>
      [] k = "read_partition" -> << "read_flash", "read_partition" >>
      [] k = "write_at_firmware" -> << "write_flash", "write_at_firmware" >>
      [] k = "write_arduino_sketch" -> << "write_flash", "write_arduino_sketch" >>
      [] OTHER -> << k >>

ReturnedAll(k, b) ==
    results' = results \o [i \in 1..Len(ops_of(k)) |-> [op |-> ops_of(k)[i], ok |-> b]]

\* ESP01/ESP8266 --action info: the second and third query follow, values unused.
main_info_next ==
    /\ pc = "ret" /\ HasRetry(variant) /\ args.action = "info"
    /\ cont \in {"get_chip_info", "get_flash_id"}
    /\ ReturnedAll(cont, ret)
    /\ IF cont = "get_chip_info"
       THEN Call(flash_id_cmd(variant), default_check(variant), "get_flash_id")
       ELSE Call(read_mac_cmd(variant), default_check(variant), "get_mac_address")
    /\ UNCHANGED << exit, banner >>
    /\ Idle

\* The branches of main that do not look at the value returned: info, mac, flash_id,
\* detect_size in ESP01/ESP8266 and every action of ESP32.
main_unchecked_end ==
    /\ pc = "ret"
    /\ \/ ~HasRetry(variant)
       \/ cont \in {"get_mac_address", "detect_flash_size"}
       \/ cont = "get_flash_id" /\ args.action = "flash_id"
    /\ ReturnedAll(cont, ret)
    /\ Finish
    /\ NoCall
    /\ Idle

\* ESP01/ESP8266 write, at_firmware, erase, write_multiple: if success ... else sys.exit(1)
main_checked_end ==
    /\ pc = "ret" /\ HasRetry(variant)
    /\ cont \in {"write_flash", "write_at_firmware", "erase_flash", "write_multiple_files"}
    /\ ReturnedAll(cont, ret)
    /\ Checked(ret)
    /\ NoCall
    /\ Idle

\* ESP01/ESP8266 read and backup: on success os.path.getsize(file), whose OSError for a
\* file that is not there is caught by main's except (OSError, ValueError): sys.exit(1).
main_read_end ==
    /\ pc = "ret" /\ HasRetry(variant)
    /\ cont \in {"read_flash", "backup_firmware"}
    /\ ReturnedAll(cont, ret)
    /\ LET file == IF cont = "read_flash" THEN Get(args.file) ELSE backup_file_of(variant, args)
       IN Checked(ret /\ exists(disk, file))
    /\ NoCall
    /\ Idle

\* ESP01/ESP8266 verify: the rest of verify_flash after the read-back, then main's test.
main_verify_end ==
    /\ pc = "ret" /\ HasRetry(variant) /\ cont = "verify_flash"
    /\ IF ~ret
       THEN /\ results' = results \o << [op |-> "read_flash", ok |-> FALSE],
                                        [op |-> "verify_flash", ok |-> FALSE] >>
            /\ Exit(1, FALSE)
            /\ UNCHANGED disk
       ELSE \E refuses \in RefusesOpenRemove :
            LET r == verify_flash_compare(disk, Get(args.file), refuses) IN
            /\ results' = results \o << [op |-> "read_flash", ok |-> TRUE],
                                        [op |-> "verify_flash", ok |-> r.ok] >>
            /\ disk' = r.disk
            /\ Checked(r.ok)
    /\ NoCall
    /\ UNCHANGED << variant, args, last, log, ret >>

-----------------------------------------------------------------------------
Next ==
    \/ main_start
    \/ main_check_esptool
    \/ main_info
    \/ main_info_next
    \/ main_query
    \/ main_read
    \/ main_backup
    \/ main_write
    \/ main_erase
    \/ main_verify
    \/ main_write_multiple
    \/ main_write_complete
    \/ main_read_partition
    \/ main_unchecked_end
    \/ main_checked_end
    \/ main_read_end
    \/ main_verify_end
    \/ run_command_success
    \/ run_command_failure
    \/ run_command_oserror
    \/ run_command_interrupt
    \/ run_command_retry
    \/ run_command_sleep_interrupt

Spec == Init /\ [][Next]_vars

\* Every started step of the run is eventually taken: the process is scheduled.
FairSpec == Spec /\ WF_vars(Next)

-----------------------------------------------------------------------------
(* write_arduino_sketch: a public method of the three flashers that main   *)
(* never calls.  A program that imports the module calls it on a flasher   *)
(* object; the call is write_flash under another name.                     *)

\* The default of the address parameter: 0x00000 in ESP01/ESP8266, 0x10000 in ESP32.
sketch_address_default(v) == IF v = "esp32" THEN 65536 ELSE 0

\* The calls flasher.write_arduino_sketch(sketch_file, address, verify) of variant v, with
\* the disk they are made on; args holds the parameters, verify defaulting to True.
SketchCalls(v) ==
    { << [DefaultArgs(v, "write_arduino_sketch") EXCEPT
             !.file = Some("fw.bin"), !.address = ad, !.verify = vf, !.flash_size = fs], dk >> :
        ad \in {sketch_address_default(v), 4096},
        vf \in IF v = "esp32" THEN {FALSE} ELSE BOOLEAN,
        fs \in FlashSizesOf(v),
        dk \in {EmptyDisk} \cup { DiskOf({"fw.bin"}, BlankFile(n)) : n \in ImageSizes } }

\* A flasher object has been constructed and write_arduino_sketch is about to be called.
ApiInit ==
    /\ variant \in Variants
    /\ \E inp \in SketchCalls(variant) :
          /\ args = inp[1]
          /\ disk = inp[2]
    /\ pc = "call"
    /\ cont = "none"
    /\ cmd = version_cmd
    /\ check = FALSE
    /\ retries = 0
    /\ calls = 0
    /\ last = NoResult
    /\ log = << >>
    /\ ret = FALSE
    /\ results = << >>
    /\ exit = None
    /\ banner = FALSE

\* write_arduino_sketch -> write_flash: the existence and size checks, then run_command.
write_arduino_sketch ==
    /\ pc = "call"
    /\ IF write_flash_rejects(variant, args, disk, Get(args.file))
       THEN /\ ReturnedAll("write_arduino_sketch", FALSE)
            /\ pc' = "returned"
            /\ NoCall
       ELSE /\ Call(write_flash_cmd(variant, args, Get(args.file), args.address,
                                    args.verify, TRUE, FALSE),
                    default_check(variant), "write_arduino_sketch")
            /\ UNCHANGED results
    /\ UNCHANGED << exit, banner >>
    /\ Idle

\* run_command's value is returned by write_flash and then by write_arduino_sketch.
write_arduino_sketch_end ==
    /\ pc = "ret" /\ cont = "write_arduino_sketch"
    /\ ReturnedAll(cont, ret)
    /\ pc' = "returned"
    /\ UNCHANGED << exit, banner >>
    /\ NoCall
    /\ Idle

ApiNext ==
    \/ write_arduino_sketch
    \/ write_arduino_sketch_end
    \/ run_command_success
    \/ run_command_failure
    \/ run_command_oserror
    \/ run_command_interrupt
    \/ run_command_retry
    \/ run_command_sleep_interrupt

ApiSpec == ApiInit /\ [][ApiNext]_vars

-----------------------------------------------------------------------------
(* install_esptool.py: the setup script.  It runs a fixed sequence of      *)
(* shell commands through its own run_command(cmd, check=True), which has  *)
(* no retry and catches CalledProcessError only.                           *)

Systems == {"windows", "linux", "darwin", "freebsd"}

shell_cmd(prog, rest) == [prog |-> prog, rest |-> rest]

\* f"{pip_cmd} --version" and f"{pip_cmd} install esptool"
pip_version_cmd(pip_cmd) == shell_cmd(pip_cmd, "--version")
pip_install_cmd(pip_cmd) == shell_cmd(pip_cmd, "install esptool")
esptool_version_cmd == shell_cmd("python", "-m esptool version")
arduino_cli_version_cmd == shell_cmd("arduino-cli", "version")
core_install_cmd(core) == shell_cmd("arduino-cli core install", core)

\* install_arduino_cli: the command of the platform, none on an unsupported system.
arduino_cli_install_cmd(system) ==
    CASE system = "windows" -> Some(shell_cmd("powershell", "install.ps1"))
      [] system = "linux" -> Some(shell_cmd("curl", "install.sh | sh"))
      [] system = "darwin" -> Some(shell_cmd("brew", "install arduino-cli"))
      [] OTHER -> None

\* The machine the script runs on: the interpreter's version and platform.system().
InstallInit ==
    /\ variant = "install"
    /\ args \in [python_ok : BOOLEAN, system : Systems]
    /\ disk = EmptyDisk
    /\ pc = "main"
    /\ cont = "none"
    /\ cmd = esptool_version_cmd
    /\ check = FALSE
    /\ retries = 0
    /\ calls = 0
    /\ last = NoResult
    /\ log = << >>
    /\ ret = FALSE
    /\ results = << >>
    /\ exit = None
    /\ banner = FALSE

\* subprocess.run(cmd, shell=True, ..., check=check) ends with status 0: return True.
install_run_command_success ==
    /\ pc = "exec"
    /\ Executed("completed", 0, << >>, [disk |-> disk, wrote |-> FALSE])
    /\ ret' = TRUE
    /\ pc' = "ret"
    /\ UNCHANGED << variant, args, cont, cmd, check, retries, calls, results, exit, banner >>

\* The command ends with a non-zero status: under check=True subprocess.run raises
\* CalledProcessError and run_command returns False; under check=False nothing is
\* raised, the return code is not looked at, and run_command returns True.
install_run_command_failure ==
    /\ pc = "exec"
    /\ \E returncode \in ReturnCodes \ {0}, stderr \in StderrTexts :
         Executed("completed", returncode, stderr, [disk |-> disk, wrote |-> FALSE])
    /\ ret' = ~check
    /\ pc' = "ret"
    /\ UNCHANGED << variant, args, cont, cmd, check, retries, calls, results, exit, banner >>

\* OSError or KeyboardInterrupt out of subprocess.run: neither is caught, by run_command
\* or by main.
install_run_command_raises ==
    /\ pc = "exec"
    /\ \E kind \in {"oserror", "interrupt"} :
         Executed(kind, 0, << >>, [disk |-> disk, wrote |-> FALSE])
    /\ pc' = "uncaught"
    /\ UNCHANGED << variant, args, cont, cmd, check, retries, calls, ret, results, exit,
                    banner >>

\* main: check_python_version, then install_esptool's first probe, pip3 --version.
install_main_start ==
    /\ pc = "main"
    /\ Returned("check_python_version", args.python_ok)
    /\ IF args.python_ok
       THEN /\ Call(pip_version_cmd("pip3"), FALSE, "install_esptool")
            /\ UNCHANGED << exit, banner >>
       ELSE /\ Exit(1, FALSE)
            /\ NoCall
    /\ Idle

\* install_esptool: for pip_cmd in ['pip3', 'pip']: the install follows a probe that
\* returned True; a probe or install that returned False moves on to the next pip_cmd;
\* the loop exhausted, install_esptool returns False and main exits with 1.  On True
\* main goes on to verify_installation.
install_esptool ==
    /\ pc = "ret" /\ cont = "install_esptool"
    /\ IF cmd = pip_version_cmd(cmd.prog) /\ ret
       THEN /\ Call(pip_install_cmd(cmd.prog), TRUE, "install_esptool")
            /\ UNCHANGED << results, exit, banner >>
       ELSE IF cmd = pip_install_cmd(cmd.prog) /\ ret
       THEN /\ Returned("install_esptool", TRUE)
            /\ Call(esptool_version_cmd, TRUE, "verify_installation")
            /\ UNCHANGED << exit, banner >>
       ELSE IF cmd.prog = "pip3"
       THEN /\ Call(pip_version_cmd("pip"), FALSE, "install_esptool")
            /\ UNCHANGED << results, exit, banner >>
       ELSE /\ Returned("install_esptool", FALSE)
            /\ Exit(1, FALSE)
            /\ NoCall
    /\ Idle

\* verify_installation, and main's sys.exit(1) when it fails; else install_arduino_cores
\* starts with its probe, arduino-cli version.
install_verify_installation ==
    /\ pc = "ret" /\ cont = "verify_installation"
    /\ Returned("verify_installation", ret)
    /\ IF ret
       THEN /\ Call(arduino_cli_version_cmd, FALSE, "install_arduino_cores")
            /\ UNCHANGED << exit, banner >>
       ELSE /\ Exit(1, FALSE)
            /\ NoCall
    /\ Idle

\* install_arduino_cores: install_arduino_cli if the probe returned False, then the two
\* core installs, whose results are not looked at; main then prints the driver notes,
\* makes the scripts executable and ends with "Installation complete!".
install_arduino_cores ==
    /\ pc = "ret" /\ cont = "install_arduino_cores"
    /\ IF cmd = arduino_cli_version_cmd /\ ~ret /\ ~IsNone(arduino_cli_install_cmd(args.system))
       THEN /\ Call(Get(arduino_cli_install_cmd(args.system)), TRUE, "install_arduino_cores")
            /\ UNCHANGED << results, exit, banner >>
       ELSE IF cmd # core_install_cmd("esp32:esp32") /\ cmd # core_install_cmd("esp8266:esp8266")
       THEN /\ Call(core_install_cmd("esp32:esp32"), TRUE, "install_arduino_cores")
            /\ UNCHANGED << results, exit, banner >>
       ELSE IF cmd = core_install_cmd("esp32:esp32")
       THEN /\ Call(core_install_cmd("esp8266:esp8266"), TRUE, "install_arduino_cores")
            /\ UNCHANGED << results, exit, banner >>
       ELSE /\ Returned("install_arduino_cores", TRUE)
            /\ Exit(0, TRUE)
            /\ NoCall
    /\ Idle

InstallNext ==
    \/ install_main_start
    \/ install_esptool
    \/ install_verify_installation
    \/ install_arduino_cores
    \/ install_run_command_success
    \/ install_run_command_failure
    \/ install_run_command_raises

InstallSpec == InstallInit /\ [][InstallNext]_vars

-----------------------------------------------------------------------------
(* Notions the properties below share.                                     *)

\* The dispatched operation has been entered: check_esptool (ESP01/ESP8266) returned
\* True and main has left the dispatch.
Dispatched ==
    /\ pc \notin {"main", "dispatch"}
    /\ HasRetry(variant) => /\ Len(results) >= 1
                            /\ results[1].ok
    /\ ~(pc = "ret" /\ cont = "check_esptool")

\* The commands executed so far that are addressed to the device.
DeviceCommands == { i \in 1..Len(log) : ~IsNone(log[i].cmd.port) }

\* The firmware file given with --file is on disk.
FirmwareOnDisk == Truthy(args.file) /\ exists(disk, Get(args.file))

\* The declared flash capacity in bytes: ESP01 1MB, ESP8266 per --flash-size, ESP32 4MB.
DeclaredCapacity ==
    CASE variant = "esp01" -> 1048576
      [] variant = "esp8266" ->
           (CASE args.flash_size = "1MB" -> 1048576 [] args.flash_size = "2MB" -> 2 * 1048576
              [] args.flash_size = "4MB" -> 4 * 1048576 [] args.flash_size = "8MB" -> 8 * 1048576
              [] args.flash_size = "16MB" -> 16 * 1048576)
      [] variant = "esp32" -> 4 * 1048576

HasResult(op, b) == \E i \in 1..Len(results) : results[i] = [op |-> op, ok |-> b]

-----------------------------------------------------------------------------
(* C1: ESP01/ESP8266 write_flash on an existing firmware file larger than  *)
(* the declared flash capacity returns False and no command addressed to   *)
(* the device is executed; on a file of at most the capacity it goes on to *)
(* hand the write-flash command to run_command.                            *)
C1_WriteFlashSizeCheck ==
    (HasRetry(variant) /\ args.action \in {"write", "at_firmware"} /\ FirmwareOnDisk) =>
        LET file_size == getsize(disk[Get(args.file)]) IN
        /\ file_size > DeclaredCapacity =>
              /\ DeviceCommands = {}
              /\ Dispatched => /\ pc = "exited"
                               /\ HasResult("write_flash", FALSE)
                               /\ calls = 1
        /\ (file_size <= DeclaredCapacity /\ Dispatched) =>
              /\ calls = 2
              /\ cmd.sub = "write-flash"
              /\ cmd.operands[1].file = Get(args.file)
              /\ ~HasResult("write_flash", FALSE) \/ DeviceCommands # {}

\* An ESP8266 run with --flash-size 16MB has refused an image of 16MB + 1 byte.
C1_Witness ==
    /\ variant = "esp8266" /\ args.action = "write" /\ FirmwareOnDisk
    /\ args.flash_size = "16MB"
    /\ getsize(disk[Get(args.file)]) = 16777217
    /\ Dispatched /\ pc = "exited" /\ HasResult("write_flash", FALSE)

(* C2: ESP32 write_flash on an existing firmware file larger than the      *)
(* declared capacity (4MB) returns False and executes no external command. *)
C2_ESP32WriteFlashSizeCheck ==
    (variant = "esp32" /\ args.action = "write" /\ FirmwareOnDisk
       /\ getsize(disk[Get(args.file)]) > DeclaredCapacity) =>
        /\ log = << >>
        /\ pc = "exited" => HasResult("write_flash", FALSE)

-----------------------------------------------------------------------------
\* verify_flash has returned (to main, which has exited on its value).
VerifyReturned ==
    /\ cont = "verify_flash" /\ pc = "exited"
    /\ \E b \in BOOLEAN : HasResult("verify_flash", b)

\* The latest execution ran to completion with exit status 0.
LastSucceeded == last.kind = "completed" /\ last.returncode = 0
\* The latest execution ran to completion with a non-zero exit status.
LastFailed == last.kind = "completed" /\ last.returncode # 0

(* C3: once the read-back has succeeded and produced temp_verification.bin, *)
(* the file is gone when verify_flash returns: on a match, on a mismatch   *)
(* and when opening a file raises an OSError.                              *)
C3_VerifyRemovesTemp ==
    (VerifyReturned /\ LastSucceeded /\ last.wrote) => ~exists(disk, TEMP_FILE)

\* verify_flash returned after a read-back that wrote the temporary file, the source
\* firmware file being absent (open() raised).
C3_Witness ==
    /\ VerifyReturned /\ LastSucceeded /\ last.wrote
    /\ Get(args.file) # TEMP_FILE
    /\ ~exists(disk, Get(args.file))
    /\ HasResult("verify_flash", FALSE)

(* C4: on every exit path of verify_flash, the one where the read-back     *)
(* reports failure included, the temporary file the read-back wrote has    *)
(* been deleted when verify_flash has returned.                            *)
C4_VerifyRemovesTempOnEveryPath ==
    (VerifyReturned /\ last.kind = "completed" /\ last.wrote) => ~exists(disk, TEMP_FILE)

(* C5: in all three variants, a flash operation's command that exits       *)
(* non-zero with "timeout" or "connection" in its error text, fewer than   *)
(* max_retries retries made, is run again: run_command does not return     *)
(* there.                                                                  *)
C5_FlashOperationsRetry ==
    ~(/\ pc = "ret" /\ cont # "check_esptool"
      /\ LastFailed /\ is_transient(last.stderr)
      /\ retries < max_retries)

\* The error text holds the word, whatever the case of its letters.
HoldsWord(text, word) ==
    \E k \in 1..Len(text) :
        /\ k + Len(word) - 1 <= Len(text)
        /\ \A j \in 1..Len(word) : lower_char(text[k + j - 1]) = word[j]

\* The latest two executions belong to the same run_command call.
ReExecuted(l) == Len(l) >= 2 /\ l[Len(l)].call = l[Len(l) - 1].call

(* C6: run_command executes a command again only right after an execution  *)
(* that exited non-zero with "timeout" or "connection" (in any case) in its *)
(* error text; after a success, another error text, an OSError or a        *)
(* CalledProcessError the call executes nothing more.                      *)
C6_RetryOnlyOnTransient ==
    [][ (Len(log') > Len(log) /\ ReExecuted(log')) =>
           /\ LastFailed
           /\ ~check
           /\ HoldsWord(last.stderr, TIMEOUT) \/ HoldsWord(last.stderr, CONNECTION)
           /\ log'[Len(log')].cmd = log[Len(log)].cmd ]_vars

\* A command has been executed a second time in one call.
C6_Witness == ReExecuted(log) /\ HasRetry(variant)

ExecutionsOf(c) == Cardinality({ i \in 1..Len(log) : log[i].call = c })

(* C7: every top-level run_command call ends, also when every execution    *)
(* fails with a transient signature: at most max_retries retries and       *)
(* max_retries + 1 executions, the counter growing by one per retry, and   *)
(* False returned once the budget is used up.                              *)
C7_RetryBudget ==
    /\ [](/\ retries <= max_retries
          /\ \A c \in 1..calls : ExecutionsOf(c) <= max_retries + 1
          /\ (LastFailed /\ retries = max_retries) => pc # "sleep"
          /\ (LastFailed /\ pc = "ret") => ~ret)
    /\ [][retries' # retries => (retries' = retries + 1 \/ retries' = 0)]_vars
    /\ (pc = "exec") ~> (pc \in {"ret", "exited", "uncaught"})

\* The budget is used up: the fourth execution failed with a transient signature and
\* run_command returned False.
C7_Witness ==
    /\ pc = "ret" /\ retries = max_retries /\ ~ret
    /\ LastFailed /\ is_transient(last.stderr)
    /\ ExecutionsOf(calls) = max_retries + 1

(* C8 as stated: for read, write, backup and verify, a run without --file  *)
(* ends with exit status 1 and spawns no external process at any point.    *)
C8_MissingFileSpawnsNothing ==
    (args.action \in {"read", "write", "backup", "verify"} /\ IsNone(args.file)) =>
        /\ log = << >>
        /\ pc = "exited" => exit = Some(1)

(* C8 amended: for read, write and verify, a run without --file executes   *)
(* no command addressed to the device and starts no operation; ESP32       *)
(* spawns no process at all, ESP01/ESP8266 only the esptool availability   *)
(* check that precedes the dispatch; the run ends with exit status 1       *)
(* unless Ctrl-C interrupts that check.                                    *)
C8_MissingFileNoDeviceCommand ==
    (args.action \in {"read", "write", "verify"} /\ IsNone(args.file)) =>
        /\ DeviceCommands = {}
        /\ \A i \in 1..Len(log) : log[i].cmd = version_cmd
        /\ variant = "esp32" => log = << >>
        /\ calls <= 1
        /\ pc = "exited" => exit = Some(1)
        /\ pc = "uncaught" => (HasRetry(variant) /\ cont = "check_esptool")

\* An ESP01 run of --action verify without --file has passed the availability check
\* and exited with status 1.
C8_Witness ==
    /\ variant = "esp01" /\ args.action = "verify" /\ IsNone(args.file)
    /\ HasResult("check_esptool", TRUE)
    /\ pc = "exited" /\ exit = Some(1)

(* C9: in every variant and for every action the exit status is 1 when a   *)
(* method called during the run returned False, and 0 only when every      *)
(* method called returned True.                                            *)
C9_ExitStatusReflectsResults ==
    pc = "exited" =>
        /\ (\E i \in 1..Len(results) : ~results[i].ok) => exit = Some(1)
        /\ exit = Some(0) => \A i \in 1..Len(results) : results[i].ok

\* The bytes of a file, one by one.
Content(f) == f.head \o [i \in 1..f.fill |-> 255]

(* C10: after a successful read-back verify_flash returns True exactly when *)
(* the source firmware file and temp_verification.bin hold the same bytes: *)
(* same length and the same byte at every offset.                          *)
C10_VerifyComparesWholeFiles ==
    [][ (pc = "ret" /\ cont = "verify_flash" /\ ret /\ pc' = "exited") =>
           (results'[Len(results')] =
              [op |-> "verify_flash",
               ok |-> /\ exists(disk, Get(args.file))
                      /\ exists(disk, TEMP_FILE)
                      /\ Content(disk[Get(args.file)]) = Content(disk[TEMP_FILE])]) ]_vars

-----------------------------------------------------------------------------
\* int(s, 16) of one hexadecimal digit.
HexDigitValue(c) == (CHOOSE i \in 1..Len(HexDigits) : HexDigits[i] = c) - 1

RECURSIVE HexValue(_)
\* The number a word of a command line denotes to the external tool when read as
\* hexadecimal, with or without the prefix 0x.
HexValue(s) ==
    IF s = << >> THEN 0
    ELSE IF Len(s) >= 2 /\ s[1] = "0" /\ s[2] = "x" THEN HexValue(SubSeq(s, 3, Len(s)))
    ELSE 16 * HexValue(SubSeq(s, 1, Len(s) - 1)) + HexDigitValue(s[Len(s)])

\* The operands of the command of the i-th execution.
OperandsOf(i) == { log[i].cmd.operands[j] : j \in 1..Len(log[i].cmd.operands) }

(* C11: no read-flash or write-flash command is executed for a region that *)
(* runs past the declared flash capacity: start + size <= capacity for     *)
(* every read, address + firmware file size <= capacity for every write.   *)
C11_RegionWithinCapacity ==
    \A i \in 1..Len(log) : \A o \in OperandsOf(i) :
        IF ~IsNone(o.size)
        THEN HexValue(o.addr) + HexValue(Get(o.size)) <= DeclaredCapacity
        ELSE exists(disk, o.file) =>
                HexValue(o.addr) + getsize(disk[o.file]) <= DeclaredCapacity

-----------------------------------------------------------------------------
\* The input files the write operation of the run was given, and that operation.
GivenFiles ==
    CASE args.action \in {"write", "at_firmware"} ->
           IF Truthy(args.file) THEN {Get(args.file)} ELSE {}
      [] args.action = "write_multiple" ->
           { files_dict_of(args)[i].val : i \in 1..Len(files_dict_of(args)) }
      [] args.action = "write_complete" ->
           IF Truthy(args.bootloader) /\ Truthy(args.partition_table) /\ Truthy(args.app)
           THEN {Get(args.bootloader), Get(args.partition_table), Get(args.app)}
           ELSE {}
      [] OTHER -> {}

WriteOperation ==
    CASE args.action = "write_multiple" -> "write_multiple_files"
      [] args.action = "write_complete" -> "write_complete_firmware"
      [] OTHER -> "write_flash"

SomeGivenFileMissing == \E f \in GivenFiles : ~exists(disk, f)

(* C12: a write operation (write_flash, write_multiple_files,              *)
(* write_complete_firmware) given a file that does not exist returns False *)
(* and executes no external command: the only command of the run is the    *)
(* availability check main made before it, and nothing is addressed to the *)
(* device, so no subset of the files is written.                           *)
C12_MissingFileBlocksWrite ==
    SomeGivenFileMissing =>
        /\ \A i \in 1..Len(log) : log[i].cmd = version_cmd
        /\ DeviceCommands = {}
        /\ Dispatched => /\ pc = "exited"
                         /\ HasResult(WriteOperation, FALSE)
                         /\ ~HasResult(WriteOperation, TRUE)

\* ESP32 write_complete has returned False with only the partition table missing.
C12_Witness ==
    /\ variant = "esp32" /\ args.action = "write_complete"
    /\ SomeGivenFileMissing
    /\ \E f \in GivenFiles : exists(disk, f)
    /\ pc = "exited"
    /\ HasResult("write_complete_firmware", FALSE)

-----------------------------------------------------------------------------
\* check_esptool has returned True in this run.
CheckSucceeded == Len(results) >= 1 /\ results[1] = [op |-> "check_esptool", ok |-> TRUE]

(* C13: in ESP01/ESP8266 the first external command of a run is the        *)
(* esptool availability check; a command carrying --port is handed to      *)
(* run_command, and executed, only after that check returned True; when    *)
(* the check returns False the process exits with status 1.                *)
C13_CheckEsptoolFirst ==
    HasRetry(variant) =>
        /\ Len(log) >= 1 => log[1].cmd = version_cmd /\ IsNone(log[1].cmd.port)
        /\ DeviceCommands # {} => CheckSucceeded
        /\ (pc \in {"exec", "sleep"} /\ ~IsNone(cmd.port)) => CheckSucceeded
        /\ pc = "dispatch" => CheckSucceeded
        /\ HasResult("check_esptool", FALSE) =>
              /\ pc = "exited" /\ exit = Some(1)
              /\ DeviceCommands = {}

\* A device command has been executed after a check that needed a retry to succeed.
C13_Witness ==
    /\ HasRetry(variant)
    /\ DeviceCommands # {}
    /\ Len(log) >= 3
    /\ log[2].cmd = version_cmd

-----------------------------------------------------------------------------
(* C14: in ESP01/ESP8266 a KeyboardInterrupt arriving after argument       *)
(* parsing, during the availability check or during the dispatched         *)
(* operation, ends the process with exit status 1: the exception never     *)
(* leaves main uncaught.                                                   *)
C14_InterruptExitsWithOne ==
    HasRetry(variant) =>
        /\ pc # "uncaught"
        /\ last.kind = "interrupt" => pc = "exited" /\ exit = Some(1)

-----------------------------------------------------------------------------
\* The region of flash the fixed table gives a partition name, in units of 0x1000 bytes.
TablePages(name) ==
    CASE name = "bootloader" -> << 1, 6 >>         \* 0x1000, 0x6000
      [] name = "partition_table" -> << 8, 1 >>    \* 0x8000, 0x1000
      [] name = "app" -> << 16, 256 >>             \* 0x10000, 0x100000
      [] name = "nvs" -> << 9, 6 >>                \* 0x9000, 0x6000
      [] name = "otadata" -> << 13, 2 >>           \* 0xd000, 0x2000
      [] name = "spiffs" -> << 384, 512 >>         \* 0x180000, 0x200000

\* ESP32 --action read_partition with --partition and --file given.
ReadPartitionRun ==
    /\ variant = "esp32" /\ args.action = "read_partition"
    /\ Truthy(args.partition) /\ Truthy(args.file)

(* C15: ESP32 read_partition with a name outside the fixed table returns   *)
(* False and executes no command; with a name of the table it executes     *)
(* exactly one read_flash command, whose start and size words are the      *)
(* table entry of that name in 8-digit hexadecimal and whose file is the   *)
(* output file, and it returns True exactly when that command exited 0.    *)
C15_ReadPartition ==
    ReadPartitionRun =>
        LET name == Get(args.partition) IN
        IF name \notin {"bootloader", "partition_table", "app", "nvs", "otadata", "spiffs"}
        THEN /\ log = << >>
             /\ pc \notin {"exec", "sleep", "ret"}
             /\ Dispatched => /\ HasResult("read_partition", FALSE)
                              /\ ~HasResult("read_partition", TRUE)
        ELSE /\ Len(log) <= 1
             /\ \A i \in 1..Len(log) :
                   /\ log[i].cmd.sub = "read_flash"
                   /\ Len(log[i].cmd.operands) = 1
                   /\ Len(log[i].cmd.operands[1].addr) = 8
                   /\ HexValue(log[i].cmd.operands[1].addr) = TablePages(name)[1] * 4096
                   /\ ~IsNone(log[i].cmd.operands[1].size)
                   /\ Len(Get(log[i].cmd.operands[1].size)) = 8
                   /\ HexValue(Get(log[i].cmd.operands[1].size)) = TablePages(name)[2] * 4096
                   /\ log[i].cmd.operands[1].file = Get(args.file)
             /\ pc = "exited" => /\ Len(log) = 1
                                 /\ HasResult("read_partition", LastSucceeded)
                                 /\ ~HasResult("read_partition", ~LastSucceeded)

\* The nvs partition has been read and read_partition returned True.
C15_Witness ==
    /\ ReadPartitionRun
    /\ Get(args.partition) = "nvs"
    /\ pc = "exited"
    /\ HasResult("read_partition", TRUE)

-----------------------------------------------------------------------------
\* The executions so far of a write-flash command.
WriteFlashExecutions == { i \in 1..Len(log) : log[i].cmd.sub = "write-flash" }

(* C16: in ESP01/ESP8266, for the actions write and at_firmware, the       *)
(* write-flash command given to the external tool carries --verify if and  *)
(* only if --verify was given and --no-verify was not.                     *)
C16_VerifyFlag ==
    (HasRetry(variant) /\ args.action \in {"write", "at_firmware"}) =>
        /\ \A i \in WriteFlashExecutions :
              ("--verify" \in log[i].cmd.flags) <=> (args.verify /\ ~args.no_verify)
        /\ (pc = "exec" /\ cmd.sub = "write-flash") =>
              (("--verify" \in cmd.flags) <=> (args.verify /\ ~args.no_verify))

\* Both --verify and --no-verify were given and the command ran without --verify.
C16_Witness ==
    /\ HasRetry(variant) /\ args.action \in {"write", "at_firmware"}
    /\ args.verify /\ args.no_verify
    /\ \E i \in WriteFlashExecutions : "--verify" \notin log[i].cmd.flags

-----------------------------------------------------------------------------
(* C17: in install_esptool.py a probe run with check=False reports failure *)
(* when the probed tool is absent (non-zero exit): run_command returns     *)
(* False for it; <pip> install esptool is attempted only after a           *)
(* <pip> --version that exited 0; install_arduino_cli is called if and     *)
(* only if the arduino-cli version probe failed.                           *)
C17_ProbeReportsAbsence ==
    variant = "install" =>
        /\ (pc = "ret" /\ ~check /\ LastFailed) => ~ret
        /\ (pc = "exec" /\ cmd = pip_install_cmd(cmd.prog)) => LastSucceeded
        /\ (pc = "exec" /\ Len(log) >= 1 /\ log[Len(log)].cmd = arduino_cli_version_cmd) =>
              IF LastFailed /\ ~IsNone(arduino_cli_install_cmd(args.system))
              THEN cmd = Get(arduino_cli_install_cmd(args.system))
              ELSE cmd = core_install_cmd("esp32:esp32")

-----------------------------------------------------------------------------
(* C18: when a top-level call of ESP01/ESP8266 run_command returns, the    *)
(* value returned is True if and only if the last execution of the command *)
(* in that call exited with status 0.                                      *)
C18_ReturnsLastExecution ==
    (HasRetry(variant) /\ pc = "ret") =>
        /\ Len(log) >= 1 /\ log[Len(log)].call = calls /\ log[Len(log)].cmd = cmd
        /\ ret <=> LastSucceeded

\* A call has returned True after a transient failure and a successful retry.
C18_Witness ==
    /\ HasRetry(variant) /\ pc = "ret"
    /\ ret /\ retries >= 1
    /\ ExecutionsOf(calls) >= 2

-----------------------------------------------------------------------------
(* C19: verify_flash leaves the source firmware file untouched: whatever   *)
(* name --file gives it, no step of a verify run, from the read-back to    *)
(* the return of verify_flash, removes the firmware file or changes its    *)
(* contents.                                                               *)
C19_VerifyLeavesFirmwareFile ==
    [][(/\ HasRetry(variant) /\ args.action = "verify"
        /\ Truthy(args.file) /\ exists(disk, Get(args.file)))
       => (/\ exists(disk', Get(args.file))
           /\ disk'[Get(args.file)] = disk[Get(args.file)])]_vars

-----------------------------------------------------------------------------
\* The files supplied to write_multiple, each with the value of its own address option.
Supplied ==
    (IF Truthy(args.bootloader)
     THEN {[file |-> Get(args.bootloader), address |-> args.bootloader_addr]} ELSE {})
    \cup (IF Truthy(args.app)
          THEN {[file |-> Get(args.app), address |-> args.app_addr]} ELSE {})
    \cup (IF Truthy(args.spiffs)
          THEN {[file |-> Get(args.spiffs), address |-> args.spiffs_addr]} ELSE {})

(* C20: in an ESP8266 write_multiple run, the write-flash command that is  *)
(* executed holds every file supplied with --bootloader, --app or --spiffs *)
(* exactly once, paired with the value of its own address option; no       *)
(* supplied file is dropped.                                               *)
C20_EverySuppliedFileWritten ==
    (variant = "esp8266" /\ args.action = "write_multiple") =>
        \A i \in WriteFlashExecutions : \A s \in Supplied :
            /\ Cardinality({ j \in 1..Len(log[i].cmd.operands) :
                               log[i].cmd.operands[j].file = s.file }) = 1
            /\ \E o \in OperandsOf(i) : /\ o.file = s.file
                                        /\ HexValue(o.addr) = s.address

-----------------------------------------------------------------------------
\* The byte ranges [s1, s1 + n1) and [s2, s2 + n2) do not intersect.
Disjoint(s1, n1, s2, n2) == s1 + n1 <= s2 \/ s2 + n2 <= s1

(* C21: the regions of the fixed ESP32 partition table are pairwise        *)
(* non-overlapping, so the read_flash command read_partition executes for  *)
(* one partition covers no byte of the region of any other partition.      *)
C21_PartitionsDisjoint ==
    ReadPartitionRun =>
        \A i \in 1..Len(log) : \A o \in OperandsOf(i) :
            \A other \in PartitionNames \ {Get(args.partition)} :
                Disjoint(HexValue(o.addr), HexValue(Get(o.size)),
                         partitions(other)[1], partitions(other)[2])
====
